---- MODULE Spec2Model ----
(***************************************************************************)
(* Model of src/main.py: class VestingBoost (a vesting position with a     *)
(* boost mechanism) and the module-level clock BLOCK_TIMESTAMP.            *)
(*                                                                         *)
(* Python's int/float quantities are modelled as exact rationals: a value  *)
(* is a record [n |-> numerator, d |-> denominator] in lowest terms with   *)
(* d > 0.  A Python exception is modelled by the name of its type; an      *)
(* operation that raises keeps every assignment executed before the raise. *)
(***************************************************************************)
EXTENDS Integers, Sequences, FiniteSets, TLC

(***************************************************************************)
(* Bounds of the exploration.                                              *)
(***************************************************************************)
MaxInitial == 2     \* initial_vesting is drawn from 1..MaxInitial
MaxBoost == 2       \* boost_amount is drawn from 0..MaxBoost
MaxAdd == 2         \* additional_vesting is drawn from -MaxAdd..MaxAdd
MaxCalls == 2       \* number of boost / add_vesting calls in one behaviour
MaxTicks == 5       \* BLOCK_TIMESTAMP stays within -1..MaxTicks quarter durations
MaxDen == 32        \* largest denominator of remaining + weight that is explored

(***************************************************************************)
(* Program constants.                                                      *)
(***************************************************************************)
ONE_YEAR_IN_SECONDS == 365 * 24 * 3600

\* int((365 / 2) * 24 * 3600), the step of the driver (line 211): a quarter
\* of the nominal duration.
HalfYear == (365 * 24 * 3600) \div 2

(***************************************************************************)
(* Exact rational arithmetic (the arithmetic of Python's numbers, without  *)
(* rounding).                                                              *)
(***************************************************************************)
Abs(i) == IF i < 0 THEN -i ELSE i

RECURSIVE GCD(_, _)
GCD(a, b) == IF b = 0 THEN a ELSE GCD(b, a % b)

Norm(n, d) ==
  LET g == GCD(Abs(n), d)
  IN  [n |-> n \div g, d |-> d \div g]

FInt(i) == [n |-> i, d |-> 1]

Zero == FInt(0)

FNeg(a) == [n |-> -a.n, d |-> a.d]

FAdd(a, b) ==
  LET g == GCD(a.d, b.d)
  IN  Norm(a.n * (b.d \div g) + b.n * (a.d \div g), a.d * (b.d \div g))

FSub(a, b) == FAdd(a, FNeg(b))

FMul(a, b) ==
  LET g1 == GCD(Abs(a.n), b.d)
      g2 == GCD(Abs(b.n), a.d)
  IN  IF a.n = 0 \/ b.n = 0 THEN Zero
      ELSE [n |-> (a.n \div g1) * (b.n \div g2),
            d |-> (a.d \div g2) * (b.d \div g1)]

\* 1 / a, for a # 0
FInv(a) == IF a.n < 0 THEN [n |-> -a.d, d |-> -a.n] ELSE [n |-> a.d, d |-> a.n]

\* a / b, for b # 0 (callers raise ZeroDivisionError before using it on 0)
FDiv(a, b) == FMul(a, FInv(b))

FLess(a, b) == a.n * b.d < b.n * a.d

FLeq(a, b) == a.n * b.d <= b.n * a.d

FMin(a, b) == IF FLess(b, a) THEN b ELSE a

(***************************************************************************)
(* State.  self is the VestingBoost object, BLOCK_TIMESTAMP the module's   *)
(* global clock.  The other variables record the last call: its name, its  *)
(* argument (lastArg, 0 for a call without one), the                       *)
(* exception it raised and where, the value it returned (only             *)
(* get_current_state returns one) and the number of boost / add_vesting   *)
(* calls made.  passed is initial_vesting plus every additional_vesting    *)
(* passed to add_vesting; deposited is initial_vesting plus every          *)
(* additional_vesting that add_vesting added to remain_vest_token (line    *)
(* 151), which a call that raises during reconciliation never reaches.     *)
(***************************************************************************)
VARIABLES self, BLOCK_TIMESTAMP, lastOp, lastArg, raised, raisedIn, snapshot,
          passed, deposited, calls

vars == <<self, BLOCK_TIMESTAMP, lastOp, lastArg, raised, raisedIn, snapshot,
          passed, deposited, calls>>

NoSnapshot == [exc |-> "none"]

(***************************************************************************)
(* VestingBoost._update_vesting_speed (lines 101-107).  The result is the  *)
(* object after the call and the exception raised, if any.                 *)
(***************************************************************************)
_update_vesting_speed(s) ==
  IF s.remain_vest_token.n = 0
  THEN [st |-> s, exc |-> "ZeroDivisionError", at |-> "_update_vesting_speed"]
  ELSE LET multiplier == FDiv(FAdd(s.remain_vest_token, s.boost_weight),
                              s.remain_vest_token)
       IN  [st |-> [s EXCEPT !.speed =
                      FMul(multiplier,
                           FDiv(s.remain_vest_token,
                                FInt(s.total_duration_seconds)))],
            exc |-> "none", at |-> "none"]

(***************************************************************************)
(* VestingBoost.__init__ (lines 35-56), for initial_vesting # 0.           *)
(***************************************************************************)
VestingBoost(initial_vesting) ==
  _update_vesting_speed(
    [remain_vest_token      |-> FInt(initial_vesting),
     total_boost_token      |-> 0,
     total_vested           |-> Zero,
     speed                  |-> Zero,
     boost_weight           |-> Zero,
     total_duration_seconds |-> ONE_YEAR_IN_SECONDS * 2,
     last_update_time       |-> 0,
     claimed_amount         |-> 0,
     claimable_boost_token  |-> 0,
     claimable_vested_token |-> Zero]).st

\* Mutant: the reset drops the boost tokens instead of releasing them into
\* claimable_boost_token.
_reset_state_dropping_boost(s, now) ==
  [s EXCEPT
     !.claimable_vested_token = FAdd(s.claimable_vested_token,
                                     FSub(s.total_vested, FInt(s.claimed_amount))),
     !.remain_vest_token      = Zero,
     !.total_boost_token      = 0,
     !.total_vested           = Zero,
     !.speed                  = Zero,
     !.boost_weight           = Zero,
     !.total_duration_seconds = ONE_YEAR_IN_SECONDS * 2,
     !.last_update_time       = now,
     !.claimed_amount         = 0]

(***************************************************************************)
(* VestingBoost._reset_state (lines 58-73).                                *)
(***************************************************************************)
_reset_state(s, now) ==
  [s EXCEPT
     !.claimable_boost_token  = s.claimable_boost_token + s.total_boost_token,
     !.claimable_vested_token = FAdd(s.claimable_vested_token,
                                     FSub(s.total_vested, FInt(s.claimed_amount))),
     !.remain_vest_token      = Zero,
     !.total_boost_token      = 0,
     !.total_vested           = Zero,
     !.speed                  = Zero,
     !.boost_weight           = Zero,
     !.total_duration_seconds = ONE_YEAR_IN_SECONDS * 2,
     !.last_update_time       = now,
     !.claimed_amount         = 0]

(***************************************************************************)
(* VestingBoost.cal_state_update (lines 75-87): a pure query.              *)
(***************************************************************************)
cal_state_update(s, now) ==
  LET time_elapsed == now - s.last_update_time
      new_vested   == FMin(FMul(s.speed, FInt(time_elapsed)), s.remain_vest_token)
      total        == FAdd(s.remain_vest_token, s.total_vested)
  IN  IF total.n = 0
      THEN [exc |-> "ZeroDivisionError"]
      ELSE [exc |-> "none",
            new_vested |-> new_vested,
            new_boost_weight |->
              FMul(FInt(s.total_boost_token),
                   FDiv(FAdd(s.total_vested, new_vested), total))]

\* Mutant: reconciliation credits total_vested without debiting
\* remain_vest_token.
_update_state_without_debit(s, now) ==
  IF s.last_update_time < now
  THEN LET u == cal_state_update(s, now)
       IN  IF u.exc # "none"
           THEN [st |-> s, exc |-> u.exc, at |-> "cal_state_update"]
           ELSE [st |-> [s EXCEPT
                           !.total_vested      = FAdd(s.total_vested, u.new_vested),
                           !.boost_weight      = u.new_boost_weight,
                           !.last_update_time  = now],
                 exc |-> "none", at |-> "none"]
  ELSE [st |-> s, exc |-> "none", at |-> "none"]

(***************************************************************************)
(* VestingBoost._update_state (lines 89-99).                               *)
(***************************************************************************)
\* Mutant: reconciliation without the guard last_update_time < BLOCK_TIMESTAMP.
_update_state_unguarded(s, now) ==
  LET u == cal_state_update(s, now)
  IN  IF u.exc # "none"
      THEN [st |-> s, exc |-> u.exc, at |-> "cal_state_update"]
      ELSE [st |-> [s EXCEPT
                      !.total_vested      = FAdd(s.total_vested, u.new_vested),
                      !.remain_vest_token = FSub(s.remain_vest_token, u.new_vested),
                      !.boost_weight      = u.new_boost_weight,
                      !.last_update_time  = now],
            exc |-> "none", at |-> "none"]

_update_state(s, now) ==
  IF s.last_update_time < now
  THEN LET u == cal_state_update(s, now)
       IN  IF u.exc # "none"
           THEN [st |-> s, exc |-> u.exc, at |-> "cal_state_update"]
           ELSE [st |-> [s EXCEPT
                           !.total_vested      = FAdd(s.total_vested, u.new_vested),
                           !.remain_vest_token = FSub(s.remain_vest_token, u.new_vested),
                           !.boost_weight      = u.new_boost_weight,
                           !.last_update_time  = now],
                 exc |-> "none", at |-> "none"]
  ELSE [st |-> s, exc |-> "none", at |-> "none"]

\* Mutant: boost without its first assertion (remain_vest_token > 0).
boost_without_remaining_check(s, boost_amount, now) ==
  IF ~ FLeq(FInt(s.total_boost_token + boost_amount),
            FAdd(s.remain_vest_token, s.total_vested))
  THEN [st |-> s, exc |-> "AssertionError", at |-> "boost"]
  ELSE LET u == _update_state(s, now)
       IN  IF u.exc # "none" THEN u
           ELSE _update_vesting_speed(
                  [u.st EXCEPT
                     !.total_boost_token = @ + boost_amount,
                     !.boost_weight      = FAdd(@, FInt(boost_amount))])

\* Mutant: boost records the tokens but does not add them to boost_weight.
boost_without_weight(s, boost_amount, now) ==
  IF ~ FLess(Zero, s.remain_vest_token)
  THEN [st |-> s, exc |-> "AssertionError", at |-> "boost"]
  ELSE IF ~ FLeq(FInt(s.total_boost_token + boost_amount),
                 FAdd(s.remain_vest_token, s.total_vested))
  THEN [st |-> s, exc |-> "AssertionError", at |-> "boost"]
  ELSE LET u == _update_state(s, now)
       IN  IF u.exc # "none" THEN u
           ELSE _update_vesting_speed(
                  [u.st EXCEPT !.total_boost_token = @ + boost_amount])

(***************************************************************************)
(* VestingBoost.boost (lines 109-134).                                     *)
(***************************************************************************)
boost(s, boost_amount, now) ==
  IF ~ FLess(Zero, s.remain_vest_token)
  THEN [st |-> s, exc |-> "AssertionError", at |-> "boost"]
  ELSE IF ~ FLeq(FInt(s.total_boost_token + boost_amount),
                 FAdd(s.remain_vest_token, s.total_vested))
  THEN [st |-> s, exc |-> "AssertionError", at |-> "boost"]
  ELSE LET u == _update_state(s, now)
       IN  IF u.exc # "none" THEN u
           ELSE _update_vesting_speed(
                  [u.st EXCEPT
                     !.total_boost_token = @ + boost_amount,
                     !.boost_weight      = FAdd(@, FInt(boost_amount))])

(***************************************************************************)
(* VestingBoost.add_vesting (lines 136-152).                               *)
(***************************************************************************)
add_vesting(s, additional_vesting, now) ==
  LET u == _update_state(s, now)
  IN  IF u.exc # "none" THEN u
      ELSE LET r == IF u.st.remain_vest_token.n = 0
                    THEN _reset_state(u.st, now)
                    ELSE u.st
           IN  _update_vesting_speed(
                 [r EXCEPT !.remain_vest_token =
                             FAdd(@, FInt(additional_vesting))])

\* Mutant: advancing the clock also reconciles the object.
adjust_time_reconciling(s, now, additional_seconds) ==
  [st  |-> _update_state(s, now + additional_seconds).st,
   now |-> now + additional_seconds]

(***************************************************************************)
(* VestingBoost.adjust_time (lines 154-164): the object and the global     *)
(* BLOCK_TIMESTAMP after the call.                                         *)
(***************************************************************************)
adjust_time(s, now, additional_seconds) ==
  [st |-> s, now |-> now + additional_seconds]

(***************************************************************************)
(* VestingBoost.get_current_state (lines 166-198).  current_state_dict is  *)
(* the dictionary the method builds (or the exception raised while         *)
(* building it); get_current_state is the call: the object after it and    *)
(* what it returns.  The method assigns no attribute of the object.        *)
(***************************************************************************)
current_state_dict(s, now) ==
  LET stale == ~ (s.last_update_time < now)
      u     == cal_state_update(s, now)
      total_vested == IF stale THEN Zero ELSE FAdd(Zero, u.new_vested)
      remain_vest  == IF stale THEN s.total_vested
                      ELSE FSub(s.total_vested, u.new_vested)
      boost_weight == IF stale THEN s.boost_weight ELSE u.new_boost_weight
  IN  IF ~ stale /\ u.exc # "none"
      THEN [exc |-> u.exc]
      ELSE [exc                |-> "none",
            RemainVest         |-> remain_vest,
            TotalBoostToken    |-> s.total_boost_token,
            Weight             |-> boost_weight,
            TotalVested        |-> total_vested,
            AvailableToClaim   |-> FSub(total_vested, FInt(s.claimed_amount)),
            Speed              |-> FMul(s.speed, FInt(2 * 365 * 24 * 3600)),
            TotalUnclaimed     |-> s.claimable_vested_token,
            TotalWithdrawableBoost |-> s.claimable_boost_token]

\* Mutant: the query reconciles the object as the mutating methods do.
get_current_state_reconciling(s, now) ==
  LET d == current_state_dict(s, now)
  IN  [st  |-> _update_state(s, now).st,
       exc |-> d.exc,
       at  |-> IF d.exc = "none" THEN "none" ELSE "cal_state_update",
       ret |-> d]

get_current_state(s, now) ==
  LET d == current_state_dict(s, now)
  IN  [st  |-> s,
       exc |-> d.exc,
       at  |-> IF d.exc = "none" THEN "none" ELSE "cal_state_update",
       ret |-> d]

(***************************************************************************)
(* The part of the state space that is explored: the denominators that     *)
(* the speed computation multiplies by the duration stay within MaxDen.    *)
(***************************************************************************)
Representable(s) ==
  /\ s.remain_vest_token.d <= MaxDen
  /\ FAdd(s.remain_vest_token, s.boost_weight).d <= MaxDen

Seconds == {-HalfYear, HalfYear, 2 * HalfYear}

(***************************************************************************)
(* Init: the object right after construction, the clock at 0 (line 4).     *)
(***************************************************************************)
Init ==
  /\ \E initial_vesting \in 1..MaxInitial :
       /\ self = VestingBoost(initial_vesting)
       /\ passed = initial_vesting
       /\ lastArg = initial_vesting
       /\ deposited = initial_vesting
  /\ BLOCK_TIMESTAMP = 0
  /\ lastOp = "__init__"
  /\ raised = "none"
  /\ raisedIn = "none"
  /\ snapshot = NoSnapshot
  /\ calls = 0

(***************************************************************************)
(* One action per public method.  Boost, AddVesting and AdjustTime take    *)
(* every argument the code accepts; AddVestingValid and AdjustTimeValid    *)
(* take only the arguments the documented preconditions allow.             *)
(***************************************************************************)
Boost ==
  \E boost_amount \in 0..MaxBoost :
    /\ calls < MaxCalls
    /\ Representable(_update_state(self, BLOCK_TIMESTAMP).st)
    /\ LET r == boost(self, boost_amount, BLOCK_TIMESTAMP)
       IN  /\ self' = r.st
           /\ raised' = r.exc
           /\ raisedIn' = r.at
    /\ lastOp' = "boost"
    /\ lastArg' = boost_amount
    /\ calls' = calls + 1
    /\ snapshot' = NoSnapshot
    /\ UNCHANGED <<BLOCK_TIMESTAMP, passed, deposited>>

AddVestingCall(additional_vesting) ==
  /\ Representable(_update_state(self, BLOCK_TIMESTAMP).st)
  /\ LET r == add_vesting(self, additional_vesting, BLOCK_TIMESTAMP)
     IN  /\ self' = r.st
         /\ raised' = r.exc
         /\ raisedIn' = r.at
  /\ lastOp' = "add_vesting"
  /\ lastArg' = additional_vesting
  /\ passed' = passed + additional_vesting
  /\ deposited' = IF _update_state(self, BLOCK_TIMESTAMP).exc = "none"
                  THEN deposited + additional_vesting
                  ELSE deposited
  /\ calls' = calls + 1
  /\ snapshot' = NoSnapshot
  /\ UNCHANGED BLOCK_TIMESTAMP

AddVestingWith(additional_vesting) ==
  /\ calls < MaxCalls
  /\ AddVestingCall(additional_vesting)

AddVesting == \E additional_vesting \in (-MaxAdd)..MaxAdd :
                AddVestingWith(additional_vesting)

AddVestingValid == \E additional_vesting \in 0..MaxAdd :
                     AddVestingWith(additional_vesting)

AdjustTimeWith(additional_seconds) ==
  /\ BLOCK_TIMESTAMP + additional_seconds >= -HalfYear
  /\ BLOCK_TIMESTAMP + additional_seconds <= MaxTicks * HalfYear
  /\ LET r == adjust_time(self, BLOCK_TIMESTAMP, additional_seconds)
     IN  /\ self' = r.st
         /\ BLOCK_TIMESTAMP' = r.now
  /\ lastOp' = "adjust_time"
  /\ lastArg' = additional_seconds
  /\ raised' = "none"
  /\ raisedIn' = "none"
  /\ snapshot' = NoSnapshot
  /\ UNCHANGED <<passed, deposited, calls>>

AdjustTime == \E additional_seconds \in Seconds :
                AdjustTimeWith(additional_seconds)

AdjustTimeValid == \E additional_seconds \in Seconds :
                     /\ additional_seconds >= 0
                     /\ AdjustTimeWith(additional_seconds)

GetCurrentState ==
  LET r == get_current_state(self, BLOCK_TIMESTAMP)
  IN  /\ self' = r.st
      /\ snapshot' = r.ret
      /\ raised' = r.exc
      /\ raisedIn' = r.at
      /\ lastOp' = "get_current_state"
      /\ lastArg' = 0
      /\ UNCHANGED <<BLOCK_TIMESTAMP, passed, deposited, calls>>

Next == Boost \/ AddVesting \/ AdjustTime \/ GetCurrentState

Spec == Init /\ [][Next]_vars

\* The same program driven only with arguments inside the documented
\* preconditions (amounts and time steps >= 0).
NextContract == Boost \/ AddVestingValid \/ AdjustTimeValid \/ GetCurrentState

SpecContract == Init /\ [][NextContract]_vars

\* The same program driven by deposits and clock steps only, one call
\* deeper and with amounts one larger than in Spec.
AddVestingDeep == \E additional_vesting \in (-(MaxAdd + 1))..(MaxAdd + 1) :
                    /\ calls < MaxCalls + 1
                    /\ AddVestingCall(additional_vesting)

NextDeposits == AddVestingDeep \/ AdjustTime

SpecDeposits == Init /\ [][NextDeposits]_vars

(***************************************************************************)
(* Properties.                                                             *)
(***************************************************************************)

NoPartialMutation ==
  [][(raised' # "none" /\ lastOp' \in {"boost", "add_vesting", "adjust_time"})
       => (self' = self /\ BLOCK_TIMESTAMP' = BLOCK_TIMESTAMP)]_vars

\* C3: cap enforcement.  In every reachable state total_boost_token <=
\* remain_vest_token + total_vested.
BoostCap ==
  FLeq(FInt(self.total_boost_token),
       FAdd(self.remain_vest_token, self.total_vested))

\* C4: the speed recomputation is never reached with remain_vest_token = 0:
\* no call raises ZeroDivisionError in _update_vesting_speed.
SpeedRecomputationSafe == raisedIn # "_update_vesting_speed"

\* C5: get_current_state is a pure, idempotent query.  A get_current_state
\* step changes neither the object nor the clock, and a second
\* get_current_state right after the first returns the same snapshot.
GetStatePure ==
  [][(lastOp' = "get_current_state")
       => /\ self' = self
          /\ BLOCK_TIMESTAMP' = BLOCK_TIMESTAMP
          /\ (lastOp = "get_current_state" => snapshot' = snapshot)]_vars

\* C5 witness: get_current_state has returned a snapshot while time had
\* elapsed since the last reconciliation and tokens were accruing.
GetStatePureWitness ==
  /\ lastOp = "get_current_state"
  /\ raised = "none"
  /\ self.last_update_time < BLOCK_TIMESTAMP
  /\ snapshot.TotalVested.n > 0

\* C6: get_current_state reports the reconciled ledger.  After a successful
\* get_current_state the snapshot's remaining, total vested and weight are
\* the values _update_state would store at the same clock value, and
\* available-to-claim is that total vested minus claimed_amount.
SnapshotIsReconciled ==
  (lastOp = "get_current_state" /\ raised = "none") =>
    LET u == _update_state(self, BLOCK_TIMESTAMP).st
    IN  /\ snapshot.RemainVest = u.remain_vest_token
        /\ snapshot.TotalVested = u.total_vested
        /\ snapshot.Weight = u.boost_weight
        /\ snapshot.AvailableToClaim =
             FSub(u.total_vested, FInt(u.claimed_amount))

\* The clock has advanced by at least
\* total_duration_seconds * remaining / (remaining + boost_weight) since
\* last_update_time; stated as
\* (elapsed / total_duration_seconds) * (remaining + boost_weight) >= remaining.
FullyElapsed(s, now) ==
  /\ s.remain_vest_token.n > 0
  /\ FAdd(s.remain_vest_token, s.boost_weight).n > 0
  /\ FLeq(s.remain_vest_token,
          FMul(FDiv(FInt(now - s.last_update_time),
                    FInt(s.total_duration_seconds)),
               FAdd(s.remain_vest_token, s.boost_weight)))

\* C7: full-vesting boundary.  Once the clock has advanced by at least
\* total_duration_seconds / multiplier, reconciliation accrues exactly the
\* stored remaining and leaves 0; remaining is never negative; and a step
\* that exhausts remaining leaves speed at 0.
FullVestingBoundary ==
  [][/\ FullyElapsed(self, BLOCK_TIMESTAMP) =>
          _update_state(self, BLOCK_TIMESTAMP).st.remain_vest_token = Zero
     /\ self'.remain_vest_token.n >= 0
     /\ (self.remain_vest_token.n > 0 /\ self'.remain_vest_token.n = 0)
          => self'.speed = Zero]_vars

\* C8: in every reachable state speed >= 0, and speed = 0 whenever
\* remain_vest_token = 0.
SpeedInvariant ==
  /\ self.speed.n >= 0
  /\ self.remain_vest_token.n = 0 => self.speed = Zero

\* The step about to be taken by add_vesting performs an epoch reset: the
\* reconciled remaining is 0.
ResetsEpoch(s, now) ==
  LET u == _update_state(s, now)
  IN  u.exc = "none" /\ u.st.remain_vest_token.n = 0

\* C9: monotonic vesting.  Across a step that is not an epoch reset
\* total_vested does not decrease, and across a step that is not an
\* add_vesting call remain_vest_token does not increase.
MonotonicVesting ==
  [][/\ ~ (lastOp' = "add_vesting" /\ ResetsEpoch(self, BLOCK_TIMESTAMP))
          => FLeq(self.total_vested, self'.total_vested)
     /\ lastOp' # "add_vesting"
          => FLeq(self'.remain_vest_token, self.remain_vest_token)]_vars

\* C10: adjust_time with a negative argument changes nothing, so the clock
\* never decreases.
ClockMonotonic ==
  [][BLOCK_TIMESTAMP' >= BLOCK_TIMESTAMP]_vars

\* C11: add_vesting with a negative amount is rejected: the call raises and
\* changes no attribute of the object.
NegativeDepositRejected ==
  [][(lastOp' = "add_vesting" /\ lastArg' < 0)
       => (raised' # "none" /\ self' = self)]_vars

\* C12: boost called while the stored remain_vest_token is 0 fails with the
\* assertion error of boost and changes no attribute of the object.
BoostWithoutTokensFails ==
  [][(lastOp' = "boost" /\ self.remain_vest_token = Zero)
       => /\ raised' = "AssertionError"
          /\ raisedIn' = "boost"
          /\ self' = self]_vars

\* C12 witness: boost has just been refused on an object whose remaining
\* is 0 after a fully vested epoch.
BoostWithoutTokensWitness ==
  /\ lastOp = "boost"
  /\ raised = "AssertionError"
  /\ self.remain_vest_token = Zero
  /\ self.total_vested.n > 0

\* C13: epoch reset on deposit.  When add_vesting(amount) with amount > 0
\* finds remaining 0 after reconciliation, then afterwards
\* claimable_boost_token has grown by the pre-reset total_boost_token,
\* claimable_vested_token by the pre-reset total_vested - claimed_amount,
\* total_boost_token, total_vested, boost_weight and claimed_amount are 0,
\* remaining = amount, last_update_time = now and speed = amount / duration.
ResetOnDeposit ==
  [][(lastOp' = "add_vesting" /\ lastArg' > 0
        /\ ResetsEpoch(self, BLOCK_TIMESTAMP))
       => LET u == _update_state(self, BLOCK_TIMESTAMP).st
          IN  /\ raised' = "none"
              /\ self'.claimable_boost_token =
                   self.claimable_boost_token + self.total_boost_token
              /\ self'.claimable_vested_token =
                   FAdd(self.claimable_vested_token,
                        FSub(u.total_vested, FInt(self.claimed_amount)))
              /\ self'.total_boost_token = 0
              /\ self'.total_vested = Zero
              /\ self'.boost_weight = Zero
              /\ self'.claimed_amount = 0
              /\ self'.remain_vest_token = FInt(lastArg')
              /\ self'.last_update_time = BLOCK_TIMESTAMP
              /\ self'.speed = FDiv(FInt(lastArg'),
                                    FInt(ONE_YEAR_IN_SECONDS * 2))]_vars

\* C13 witness: the instance of the claim at scale 1: initial 1, boost 1,
\* half the duration elapsed, add_vesting(2): claimable vested 1, claimable
\* boost 1, remaining 2, total boost 0.
ResetOnDepositWitness ==
  /\ lastOp = "add_vesting"
  /\ lastArg = 2
  /\ BLOCK_TIMESTAMP = 2 * HalfYear
  /\ self.claimable_vested_token = FInt(1)
  /\ self.claimable_boost_token = 1
  /\ self.remain_vest_token = FInt(2)
  /\ self.total_boost_token = 0
  /\ self.last_update_time = BLOCK_TIMESTAMP

\* accrued = min(speed * (now - last_update_time), remaining)
Accrued(s, now) ==
  FMin(FMul(s.speed, FInt(now - s.last_update_time)), s.remain_vest_token)

\* C14 as stated (for calls made when the clock is not behind
\* last_update_time): after a successful boost(amount), total_boost_token
\* has grown by amount, boost_weight = total_boost_token_old *
\* (total_vested + accrued) / (remaining + total_vested) + amount, remaining
\* and total_vested are reconciled by accrued, last_update_time = now and
\* speed = (remaining + boost_weight) / duration.
BoostEffectAsStated ==
  [][(lastOp' = "boost" /\ raised' = "none"
        /\ self.last_update_time <= BLOCK_TIMESTAMP
        /\ FAdd(self.remain_vest_token, self.total_vested).n # 0)
       => LET accrued == Accrued(self, BLOCK_TIMESTAMP)
          IN  /\ self'.total_boost_token = self.total_boost_token + lastArg'
              /\ self'.boost_weight =
                   FAdd(FMul(FInt(self.total_boost_token),
                             FDiv(FAdd(self.total_vested, accrued),
                                  FAdd(self.remain_vest_token,
                                       self.total_vested))),
                        FInt(lastArg'))
              /\ self'.remain_vest_token = FSub(self.remain_vest_token, accrued)
              /\ self'.total_vested = FAdd(self.total_vested, accrued)
              /\ self'.last_update_time = BLOCK_TIMESTAMP
              /\ self'.speed =
                   FDiv(FAdd(self'.remain_vest_token, self'.boost_weight),
                        FInt(self'.total_duration_seconds))]_vars

\* C14 as amended: after a successful boost(amount), total_boost_token has
\* grown by amount and speed = (remaining + boost_weight) / duration from
\* the post-boost values.  If the clock is ahead of last_update_time,
\* boost_weight = total_boost_token_old * (total_vested + accrued) /
\* (remaining + total_vested) + amount, remaining and total_vested are
\* reconciled by accrued and last_update_time = now; otherwise
\* reconciliation is a no-op: boost_weight = stored boost_weight + amount,
\* and remaining, total_vested and last_update_time are unchanged.
BoostEffect ==
  [][(lastOp' = "boost" /\ raised' = "none")
       => LET accrued == Accrued(self, BLOCK_TIMESTAMP)
          IN  /\ self'.total_boost_token = self.total_boost_token + lastArg'
              /\ IF self.last_update_time < BLOCK_TIMESTAMP
                 THEN /\ self'.boost_weight =
                           FAdd(FMul(FInt(self.total_boost_token),
                                     FDiv(FAdd(self.total_vested, accrued),
                                          FAdd(self.remain_vest_token,
                                               self.total_vested))),
                                FInt(lastArg'))
                      /\ self'.remain_vest_token =
                           FSub(self.remain_vest_token, accrued)
                      /\ self'.total_vested = FAdd(self.total_vested, accrued)
                      /\ self'.last_update_time = BLOCK_TIMESTAMP
                 ELSE /\ self'.boost_weight =
                           FAdd(self.boost_weight, FInt(lastArg'))
                      /\ self'.remain_vest_token = self.remain_vest_token
                      /\ self'.total_vested = self.total_vested
                      /\ self'.last_update_time = self.last_update_time
              /\ self'.speed =
                   FDiv(FAdd(self'.remain_vest_token, self'.boost_weight),
                        FInt(self'.total_duration_seconds))]_vars

\* C14 witness: a second boost has succeeded after time elapsed, on top of
\* an earlier boost whose weight was reconciled.
BoostEffectWitness ==
  /\ lastOp = "boost"
  /\ raised = "none"
  /\ lastArg > 0
  /\ self.total_boost_token > lastArg
  /\ self.total_vested.n > 0
  /\ self.last_update_time = BLOCK_TIMESTAMP
  /\ FLess(FInt(lastArg), self.boost_weight)
  /\ FLess(self.boost_weight, FInt(self.total_boost_token))

\* C15: reset only on deposit.  A step that is not an add_vesting call with
\* reconciled remaining 0 leaves claimable_vested_token and
\* claimable_boost_token unchanged and does not zero a non-zero
\* total_boost_token or total_vested.
ResetOnlyOnDeposit ==
  [][~ (lastOp' = "add_vesting" /\ ResetsEpoch(self, BLOCK_TIMESTAMP))
       => /\ self'.claimable_vested_token = self.claimable_vested_token
          /\ self'.claimable_boost_token = self.claimable_boost_token
          /\ self.total_boost_token # 0 => self'.total_boost_token # 0
          /\ self.total_vested # Zero => self'.total_vested # Zero]_vars

\* C16: adjust_time(seconds) with seconds >= 0 increases the clock by
\* exactly seconds and leaves every attribute of the object unchanged.
AdvanceTimeFrame ==
  [][(lastOp' = "adjust_time" /\ lastArg' >= 0)
       => /\ BLOCK_TIMESTAMP' = BLOCK_TIMESTAMP + lastArg'
          /\ self' = self]_vars

\* C16 witness: the clock has been advanced on an object that is accruing,
\* and the accrual for the elapsed time is still pending.
AdvanceTimeFrameWitness ==
  /\ lastOp = "adjust_time"
  /\ lastArg > 0
  /\ self.last_update_time < BLOCK_TIMESTAMP
  /\ self.remain_vest_token.n > 0
  /\ self.speed.n > 0
  /\ self.total_boost_token > 0

\* remaining + total_vested, the total of the current epoch
EpochTotal(s) == FAdd(s.remain_vest_token, s.total_vested)

\* C17 as stated (for calls with a non-negative argument): between two
\* epoch resets remaining + total_vested has the same value in every state,
\* that is, every step that is not an epoch reset leaves it unchanged.
EpochTotalConstant ==
  [][(~ (lastOp' = "add_vesting" /\ ResetsEpoch(self, BLOCK_TIMESTAMP))
        /\ lastArg' >= 0)
       => EpochTotal(self') = EpochTotal(self)]_vars

\* C17 as amended: between two epoch resets remaining + total_vested
\* changes only by deposits: a step that is not an add_vesting call leaves
\* it unchanged, and an add_vesting(amount) call that does not reset the
\* epoch raises it by exactly amount (by nothing if the call raises during
\* reconciliation).
EpochTotalChangesByDeposits ==
  [][/\ lastOp' # "add_vesting" => EpochTotal(self') = EpochTotal(self)
     /\ (lastOp' = "add_vesting" /\ ~ ResetsEpoch(self, BLOCK_TIMESTAMP))
          => EpochTotal(self') =
               FAdd(EpochTotal(self), FInt(deposited' - deposited))]_vars

\* C17 witness: a deposit has been added to a partly vested epoch, which
\* was not reset.
EpochTotalWitness ==
  /\ lastOp = "add_vesting"
  /\ raised = "none"
  /\ lastArg > 0
  /\ self.total_vested.n > 0
  /\ FLess(FInt(lastArg), self.remain_vest_token)
  /\ self.claimable_vested_token = Zero
  /\ EpochTotal(self) = FInt(deposited)

\* C18: in every reachable state 0 <= boost_weight <= total_boost_token, and
\* speed <= (remaining + total_boost_token) / duration.
BoostWeightBounded ==
  /\ self.boost_weight.n >= 0
  /\ FLeq(self.boost_weight, FInt(self.total_boost_token))
  /\ FLeq(FMul(self.speed, FInt(self.total_duration_seconds)),
          FAdd(self.remain_vest_token, FInt(self.total_boost_token)))

\* C19: get_current_state succeeds in every reachable state: no call of
\* get_current_state raises.
GetStateNeverRaises ==
  lastOp = "get_current_state" => raised = "none"

\* The times to which the clock is advanced after an intermediate call.
Later == {BLOCK_TIMESTAMP + HalfYear, BLOCK_TIMESTAMP + 2 * HalfYear}

\* Reconciliation of s at t2 and of r at t2 give the same remaining and
\* total_vested.
SameOutcomeAt(s, r, t2) ==
  LET a == _update_state(s, t2)
      b == _update_state(r, t2)
  IN  /\ a.exc = b.exc
      /\ a.exc = "none" =>
           /\ a.st.remain_vest_token = b.st.remain_vest_token
           /\ a.st.total_vested = b.st.total_vested

\* C20 as stated: for a ledger with remaining > 0, after a successful boost(0)
\* or add_vesting(0) at the present time t1, reconciliation at a later time t2
\* gives the same remaining and total_vested as reconciliation at t2 of the
\* object as it was before the call.
TimingIndependence ==
  [][(/\ lastOp' \in {"boost", "add_vesting"}
      /\ lastArg' = 0
      /\ raised' = "none"
      /\ FLess(Zero, self.remain_vest_token))
       => \A t2 \in Later : SameOutcomeAt(self', self, t2)]_vars

\* C20 (amended): the same equality holds when the zero-amount call is issued
\* with no time elapsed since last_update_time, so that its reconciliation
\* step changes nothing; the call then leaves speed as it was.
TimingIndependenceNoElapsed ==
  [][(/\ lastOp' \in {"boost", "add_vesting"}
      /\ lastArg' = 0
      /\ raised' = "none"
      /\ FLess(Zero, self.remain_vest_token)
      /\ self.last_update_time >= BLOCK_TIMESTAMP)
       => \A t2 \in Later : SameOutcomeAt(self', self, t2)]_vars

\* The first call on a ledger is a successful boost(0) at time 0, when no
\* time has elapsed since construction, and tokens vest by t2.
TimingIndependenceWitness ==
  /\ lastOp = "boost"
  /\ lastArg = 0
  /\ raised = "none"
  /\ calls = 1
  /\ BLOCK_TIMESTAMP = 0
  /\ FLess(Zero, self.remain_vest_token)
  /\ \E t2 \in Later :
       LET a == _update_state(self, t2)
       IN  a.exc = "none" /\ FLess(self.total_vested, a.st.total_vested)

====
